---- MODULE Spec2Model ----
(***************************************************************************)
(* Model of the curve pipeline of grapher: plot_graphs (src/plotter.py)    *)
(* with its nested helpers evaluate_curve_for_scaling, plot_single_curve   *)
(* and setup_axes, the call site of the Streamlit app (src/app.py), and    *)
(* the row loader load_reference_data with process_row and its helpers     *)
(* (src/data_loader.py).                                                   *)
(*                                                                         *)
(* Numbers.  A float is a record [t, v]: t = "fin" with the integer value  *)
(* v, t = "inf" with the sign v, t = "nan", or t = "str" for a cell that   *)
(* float() rejects.  A finite result whose magnitude exceeds FMax becomes  *)
(* an infinity, as a double does beyond 1.797e308.  Y bounds are held      *)
(* multiplied by PadDen, so that min - 0.1*span is an integer; rounding of *)
(* the product 0.1*span is not modelled.                                   *)
(*                                                                         *)
(* Specifications.  Spec is plot_graphs over the curve shapes and axis     *)
(* settings; SpecDegree is plot_graphs over all-zero and over-long         *)
(* vectors; SpecLegend is plot_graphs over legend texts and palette sizes; *)
(* SpecLoader is load_reference_data over sheets of rows.                  *)
(*                                                                         *)
(* Sampling.  np.linspace(x_min, x_max, num_points) is modelled with       *)
(* NumPoints samples for every width; the X ranges drawn are those whose   *)
(* width is a multiple of NumPoints - 1, so every sample is an integer.    *)
(***************************************************************************)
EXTENDS Integers, Sequences, FiniteSets, TLC

\* ------------------------------------------------------------------ bounds
NumPoints == 5
MaxCurves == 2
FMax == 40

\* --------------------------------------------------------- program constants
MaxDegree == 10
PadDen == 10

\* ------------------------------------------------------------------ floats
Fin(n) == [t |-> "fin", v |-> n]
NaN == [t |-> "nan", v |-> 0]
PInf == [t |-> "inf", v |-> 1]
NInf == [t |-> "inf", v |-> -1]
Str == [t |-> "str", v |-> 0]

isfinite(a) == a.t = "fin"
isnan(a) == a.t = "nan"
isinf(a) == a.t = "inf"

Sign(n) == IF n > 0 THEN 1 ELSE IF n < 0 THEN -1 ELSE 0

\* The double nearest an exact result: beyond FMax it is an infinity.
Round(n) == IF n > FMax THEN PInf ELSE IF n < -FMax THEN NInf ELSE Fin(n)

FMul(a, b) ==
    IF isnan(a) \/ isnan(b) THEN NaN
    ELSE IF isinf(a) \/ isinf(b)
         THEN IF Sign(a.v) * Sign(b.v) = 0 THEN NaN
              ELSE [t |-> "inf", v |-> Sign(a.v) * Sign(b.v)]
         ELSE Round(a.v * b.v)

FAdd(a, b) ==
    IF isnan(a) \/ isnan(b) THEN NaN
    ELSE IF isinf(a) /\ isinf(b) THEN (IF a.v = b.v THEN a ELSE NaN)
    ELSE IF isinf(a) THEN a
    ELSE IF isinf(b) THEN b
    ELSE Round(a.v + b.v)

\* np.polyval: y = 0; for pv in p: y = y * x + pv
RECURSIVE Horner(_, _, _, _)
Horner(p, x, n, y) ==
    IF n > Len(p) THEN y
    ELSE Horner(p, x, n + 1, FAdd(FMul(y, Fin(x)), p[n]))

polyval(p, x) == Horner(p, x, 1, Fin(0))

\* np.array(entry['coefficients'], dtype=float) raises ValueError on a cell
\* that is no number.
ArrayFails(coefficients) == \E n \in 1..Len(coefficients) : coefficients[n].t = "str"

\* coeffs[:11] when degree > 10
Truncate(coeffs) ==
    IF Len(coeffs) - 1 > MaxDegree THEN SubSeq(coeffs, 1, MaxDegree + 1) ELSE coeffs

\* ---------------------------------------------------------------- options
None == <<>>
Some(n) == <<n>>
Val(b) == b[1]

\* ------------------------------------------------------------------- state
VARIABLES
    \* arguments of plot_graphs (y_min, y_max: None or Some(PadDen * bound))
    data_ref, x_min, x_max, y_min, y_max, plot_grouping, auto_scale_y,
    stop_y_exit, stop_x_exit, debug, use_colorful,
    \* num_colors and custom_legends, the text of the legend box
    num_colors, custom_legends,
    \* locals of plot_graphs
    pc, i, all_y_vals, plot_data, successful_plots, final_y_min, final_y_max,
    y_range, curve_y_min, curve_y_max, skipped_curves, figs,
    \* the renderer: the calls of ax.plot, the last ax.set_ylim
    plotted, ylim,
    \* how the call ended: "" while running or returned, else the exception
    exc,
    \* load_reference_data: its argument (None, an unreadable file or the
    \* sheet read from it), the row at hand, the messages; its data_ref and
    \* debug are the variables of these names above
    uploaded_file, index, skipped_rows

args == <<data_ref, x_min, x_max, y_min, y_max, plot_grouping, auto_scale_y,
          stop_y_exit, stop_x_exit, debug, use_colorful, num_colors, custom_legends>>
locals == <<i, all_y_vals, plot_data, successful_plots, final_y_min, final_y_max,
            y_range, curve_y_min, curve_y_max, skipped_curves, figs>>
loader == <<uploaded_file, index, skipped_rows>>
vars == <<args, locals, pc, plotted, ylim, exc, loader>>

\* ----------------------------------------------------------------- helpers
\* np.linspace(x_min, x_max, num_points)[k - 1]
linspace(k) == x_min + (k - 1) * ((x_max - x_min) \div (NumPoints - 1))

\* An entry of skipped_curves: the message's kind, the curve name it holds
\* ("" when it holds none) and the entry index it holds (-1 when none).
Msg(kind, name) == [kind |-> kind, name |-> name, entry |-> -1]
EntryMsg(kind, n) == [kind |-> kind, name |-> "", entry |-> n]

\* (v >= lo) & (v <= hi), with lo and hi held multiplied by PadDen
InBounds(v, lo, hi) == PadDen * v >= Val(lo) /\ PadDen * v <= Val(hi)

\* in_bounds & ~np.roll(in_bounds, 1), then enter[0] = in_bounds[0]
Enter(inb) ==
    [n \in 1..Len(inb) |->
        IF n = 1 THEN inb[1]
        ELSE inb[n] /\ ~inb[n - 1]]

\* np.where(enter)[0][0], 1-based; 0 when np.any(enter) is false
FirstEnter(enter) ==
    IF \E n \in 1..Len(enter) : enter[n]
    THEN CHOOSE n \in 1..Len(enter) : enter[n] /\ \A m \in 1..(n - 1) : ~enter[m]
    ELSE 0

\* seq[first_enter_idx:]
From(seq, n) == SubSeq(seq, n, Len(seq))

\* y_vals = np.polyval(coeffs, np.linspace(...)) as samples [k, x, y]
Samples(coeffs) ==
    [k \in 1..NumPoints |->
        [k |-> k, x |-> linspace(k), y |-> polyval(coeffs, linspace(k))]]

\* p1_full[finite_mask], y_vals[finite_mask]: the finite samples, y an integer
Finite(samples) ==
    LET kept == SelectSeq(samples, LAMBDA s : isfinite(s.y))
    IN [n \in 1..Len(kept) |-> [k |-> kept[n].k, x |-> kept[n].x, y |-> kept[n].y.v]]

SeqMin(s) == CHOOSE v \in {s[n] : n \in 1..Len(s)} : \A n \in 1..Len(s) : v <= s[n]
SeqMax(s) == CHOOSE v \in {s[n] : n \in 1..Len(s)} : \A n \in 1..Len(s) : v >= s[n]

\* ------------------------------------------- evaluate_curve_for_scaling
\* Returns [none, y]: none for the (None, None) returns, else y = y_finite.
ScalingStop(y_finite) ==
    LET inb == [n \in 1..Len(y_finite) |-> InBounds(y_finite[n], y_min, y_max)]
        first_enter_idx == FirstEnter(Enter(inb))
    IN IF first_enter_idx > 0 THEN From(y_finite, first_enter_idx) ELSE y_finite

evaluate_curve_for_scaling(entry, disable_stop_logic) ==
    IF ArrayFails(entry.coefficients) THEN [none |-> TRUE, y |-> <<>>]
    ELSE
    LET coeffs == Truncate(entry.coefficients)
        finite == Finite(Samples(coeffs))
        y_finite == [n \in 1..Len(finite) |-> finite[n].y]
    IN IF Len(finite) < 2 THEN [none |-> TRUE, y |-> <<>>]
       ELSE IF ~disable_stop_logic /\ stop_y_exit /\ y_min # None /\ y_max # None
            THEN [none |-> FALSE, y |-> ScalingStop(y_finite)]
            ELSE [none |-> FALSE, y |-> y_finite]

\* ---------------------------------------------------- plot_single_curve
\* Returns [status, diags, points]: status "ok" (True, line, plot_data),
\* "skip" (False, None, None) or the exception that leaves the function;
\* diags are the messages appended to skipped_curves; points are the arrays
\* handed to ax.plot.  y_lo, y_hi are effective_y_min, effective_y_max: both
\* call sites pass the same value as y_min and as current_y_min.
Skip(diags) == [status |-> "skip", diags |-> diags, points |-> <<>>]

\* Lines 235-245: the text label of monochrome mode, then the return.
LabelAndReturn(diags, points, y_lo, y_hi) ==
    LET ys == [n \in 1..Len(points) |-> points[n].y]
        label_y_range ==
            IF y_lo # None /\ y_hi # None THEN Val(y_hi) - Val(y_lo)
            ELSE PadDen * (SeqMax(ys) - SeqMin(ys))
    IN IF ~use_colorful /\ Len(points) > 0 /\ label_y_range > 0
          /\ (y_lo = None \/ y_hi = None)
       THEN [status |-> "TypeError", diags |-> diags, points |-> points]
       ELSE [status |-> "ok", diags |-> diags, points |-> points]

\* Lines 210-233: the two length checks around the y clipping, then ax.plot.
FinalValidation(name, diags, final, y_lo, y_hi) ==
    IF Len(final) < 2
    THEN Skip(Append(diags, Msg("insufficient_after_filtering", name)))
    ELSE
    LET clipped ==
            IF ~auto_scale_y /\ y_lo # None /\ y_hi # None
            THEN SelectSeq(final, LAMBDA s : InBounds(s.y, y_lo, y_hi))
            ELSE final
    IN IF Len(clipped) < 2
       THEN Skip(Append(diags, Msg("no_points_after_clipping", name)))
       ELSE LabelAndReturn(diags, clipped, y_lo, y_hi)

\* YStop without its else branch: a curve that never enters the Y range falls
\* through to the final validation.
YStopNoNeverEntered(name, diags, bounded, y_lo, y_hi) ==
    FinalValidation(name, diags, bounded, y_lo, y_hi)

\* Lines 183-208: the Y stop logic.
YStop(name, diags, bounded, y_lo, y_hi) ==
    IF stop_y_exit /\ ~auto_scale_y /\ y_lo # None /\ y_hi # None
    THEN LET inb == [n \in 1..Len(bounded) |-> InBounds(bounded[n].y, y_lo, y_hi)]
             first_enter_idx == FirstEnter(Enter(inb))
         IN IF first_enter_idx > 0
            THEN FinalValidation(name,
                     IF debug THEN Append(diags, Msg("y_stop_applied", name)) ELSE diags,
                     From(bounded, first_enter_idx), y_lo, y_hi)
            ELSE Skip(Append(diags, Msg("never_entered_y", name)))
    ELSE FinalValidation(name, diags, bounded, y_lo, y_hi)

\* XStop with the bounds of the X range left out of it: x > x_min.
XStopStrict(name, diags, finite, y_lo, y_hi) ==
    IF stop_x_exit
    THEN LET inb == [n \in 1..Len(finite) |->
                        finite[n].x > x_min /\ finite[n].x <= x_max]
             first_enter_idx == FirstEnter(Enter(inb))
         IN IF first_enter_idx > 0
            THEN YStop(name,
                     IF debug THEN Append(diags, Msg("x_stop_applied", name)) ELSE diags,
                     From(finite, first_enter_idx), y_lo, y_hi)
            ELSE Skip(Append(diags, Msg("never_entered_x", name)))
    ELSE YStop(name, diags, finite, y_lo, y_hi)

\* Lines 161-181: the X stop logic.
XStop(name, diags, finite, y_lo, y_hi) ==
    IF stop_x_exit
    THEN LET inb == [n \in 1..Len(finite) |->
                        finite[n].x >= x_min /\ finite[n].x <= x_max]
             first_enter_idx == FirstEnter(Enter(inb))
         IN IF first_enter_idx > 0
            THEN YStop(name,
                     IF debug THEN Append(diags, Msg("x_stop_applied", name)) ELSE diags,
                     From(finite, first_enter_idx), y_lo, y_hi)
            ELSE Skip(Append(diags, Msg("never_entered_x", name)))
    ELSE YStop(name, diags, finite, y_lo, y_hi)

\* Lines 125-159: conversion, degree cap, evaluation, finiteness.
plot_single_curve(entry, y_lo, y_hi) ==
    LET name == entry.name IN
    IF ArrayFails(entry.coefficients)
    THEN Skip(<<Msg("invalid_coefficients", name)>>)
    ELSE
    LET degree == Len(entry.coefficients) - 1
        diags == IF degree > MaxDegree THEN <<Msg("degree_exceeded", name)>> ELSE <<>>
        samples == Samples(Truncate(entry.coefficients))
        finite == Finite(samples)
    IN IF (\A k \in 1..NumPoints : isnan(samples[k].y))
          \/ (\A k \in 1..NumPoints : isinf(samples[k].y))
       THEN Skip(Append(diags, Msg("no_valid_output", name)))
       ELSE IF Len(finite) < 2
            THEN Skip(Append(diags, Msg("insufficient_finite", name)))
            ELSE XStop(name, diags, finite, y_lo, y_hi)

\* ---------------------------------------------------------- setup_axes
\* Lines 253-322.  ax.set_ylim is called when both bounds are given; the
\* title line reads title_suffix, a name bound in no enclosing scope, so the
\* call ends in NameError after the limits were set.
SetYlim(lo, hi) == IF lo # None /\ hi # None THEN <<lo, hi>> ELSE ylim
setup_axes == "NameError"

\* PaddedMin with the padding left out below the minimum.
PaddedMinUnpadded(vals) ==
    LET lo == SeqMin(vals)
        span == SeqMax(vals) - lo
    IN IF span > 0 THEN Some(PadDen * lo) ELSE Some(PadDen * (lo - 1))

\* PaddedMax without the branch for a span of zero.
PaddedMaxNoDegenerate(vals) ==
    Some(PadDen * SeqMax(vals) + (SeqMax(vals) - SeqMin(vals)))

\* Lines 353-362 and 420-429: padding of the collected values, in PadDen-ths.
PaddedMin(vals) ==
    LET lo == SeqMin(vals)
        span == SeqMax(vals) - lo
    IN IF span > 0 THEN Some(PadDen * lo - span) ELSE Some(PadDen * (lo - 1))

PaddedMax(vals) ==
    LET hi == SeqMax(vals)
        span == hi - SeqMin(vals)
    IN IF span > 0 THEN Some(PadDen * hi + span) ELSE Some(PadDen * (hi + 1))

\* ------------------------------------------------------ colors and legends
DEFAULT_COLORS ==
    << "#1f77b4", "#ff7f0e", "#2ca02c", "#d62728", "#9467bd", "#8c564b", "#e377c2",
       "#7f7f7f", "#bcbd22", "#17becf", "#aec7e8", "#ffbb78", "#98df8a", "#ff9896",
       "#c5b0d5", "#c49c94", "#f7b6d2", "#c7c7c7", "#dbdb8d", "#9edae5", "#393b79",
       "#ad494a", "#8c6d31", "#d6616b", "#b5cf6b", "#7b4173", "#ce6dbd", "#637939",
       "#6b6ecf", "#d4b9da", "#843c39", "#de9ed6", "#7b4f4b", "#a55194", "#ce1256" >>

\* Line 21: DEFAULT_COLORS[:min(num_colors, len(DEFAULT_COLORS))], num_colors >= 1
colors ==
    IF use_colorful
    THEN SubSeq(DEFAULT_COLORS, 1,
                IF num_colors < Len(DEFAULT_COLORS) THEN num_colors ELSE Len(DEFAULT_COLORS))
    ELSE <<"black">>

\* text.split(sep) for a separator of one character: the pieces between the
\* separators, the empty ones included
RECURSIVE split(_, _, _)
split(text, sep, piece) ==
    IF text = "" THEN <<piece>>
    ELSE IF Head(text) = sep THEN <<piece>> \o split(Tail(text), sep, "")
    ELSE split(Tail(text), sep, piece \o Head(text))

\* s.strip(), the white space being blanks
RECURSIVE strip(_)
strip(s) ==
    IF s = "" THEN s
    ELSE IF Head(s) = " " THEN strip(Tail(s))
    ELSE IF SubSeq(s, Len(s), Len(s)) = " " THEN strip(SubSeq(s, 1, Len(s) - 1))
    ELSE s

\* ':' in line, and line.split(':', 1)
HasColon(line) == \E n \in 1..Len(line) : SubSeq(line, n, n) = ":"
FirstColon(line) ==
    CHOOSE n \in 1..Len(line) :
        SubSeq(line, n, n) = ":" /\ \A m \in 1..(n - 1) : SubSeq(line, m, m) # ":"
BeforeColon(line) == SubSeq(line, 1, FirstColon(line) - 1)
AfterColon(line) == SubSeq(line, FirstColon(line) + 1, Len(line))

\* dict: a function from keys to values; d[key] = value; d.get(key, default)
Put(d, key, value) == [k \in DOMAIN d \cup {key} |-> IF k = key THEN value ELSE d[k]]
Get(d, key, default) == IF key \in DOMAIN d THEN d[key] ELSE default

\* ParseLine with a name-only line taking the color of the name away.
ParseLineNameResets(maps, raw) ==
    LET line == strip(raw) IN
    IF line = "" THEN maps
    ELSE IF HasColon(line)
    THEN LET name == strip(BeforeColon(line))
             color == strip(AfterColon(line))
         IN [label |-> Put(maps.label, name, name),
             color |-> Put(maps.color, name, IF use_colorful THEN color ELSE "black")]
    ELSE LET name == strip(line)
         IN [label |-> Put(maps.label, name, name),
             color |-> [k \in DOMAIN maps.color \ {name} |-> maps.color[k]]]

\* Lines 49-62: one line of the legend text, applied to the two maps.
ParseLine(maps, raw) ==
    LET line == strip(raw) IN
    IF line = "" THEN maps
    ELSE IF HasColon(line)
    THEN LET name == strip(BeforeColon(line))
             color == strip(AfterColon(line))
         IN [label |-> Put(maps.label, name, name),
             color |-> Put(maps.color, name, IF use_colorful THEN color ELSE "black")]
    ELSE LET name == strip(line)
         IN [label |-> Put(maps.label, name, name), color |-> maps.color]

\* Lines 44-62: the maps after the first n lines of the text.
RECURSIVE ParseLegends(_, _)
ParseLegends(lines, n) ==
    IF n = 0 THEN [label |-> <<>>, color |-> <<>>]
    ELSE ParseLine(ParseLegends(lines, n - 1), lines[n])

LegendLines == IF custom_legends = "" THEN <<>> ELSE split(custom_legends, "\n", "")
custom_label_map == ParseLegends(LegendLines, Len(LegendLines)).label
custom_color_map == ParseLegends(LegendLines, Len(LegendLines)).color

\* Line 345: the color of entry n (batch index n - 1) in "All in One".
ColorAllInOne(n) ==
    IF use_colorful
    THEN Get(custom_color_map, data_ref[n].name, colors[((n - 1) % Len(colors)) + 1])
    ELSE "black"

\* Line 408: the color of entry n in "One per Curve".
ColorPerCurve(n) ==
    IF use_colorful
    THEN Get(custom_color_map, data_ref[n].name, colors[1])
    ELSE "black"

\* Lines 346, 409: the label of entry n.
Label(n) == Get(custom_label_map, data_ref[n].name, data_ref[n].name)

\* ------------------------------------------------------------------ inputs
\* Entries of data_ref.  has_keys is false for a dict that lacks 'name' or
\* 'coefficients'.  Coefficients are highest degree first.
CoefficientVectors ==
    { <<Fin(1), Fin(0), Fin(0)>>,       \* x^2
      <<Fin(1), Fin(0)>>,               \* x
      <<Fin(2)>>,                       \* the constant 2
      <<PInf, Fin(0)>>,                 \* inf * x: infinities, NaN at x = 0
      <<Fin(30), Fin(30), Fin(0)>>,     \* overflows away from 0 and -1
      <<Fin(1), Str>> }                 \* a cell that is no number

CurveNames == <<"A", "B", "C", "D">>

EntriesAt(n) ==
    { [has_keys |-> TRUE, name |-> CurveNames[n], coefficients |-> c] :
        c \in CoefficientVectors }
    \cup { [has_keys |-> FALSE, name |-> "", coefficients |-> <<>>] }

\* The batches of at most MaxCurves entries; the loader hands over entries
\* with distinct names, here the name of the position.  Past the second
\* entry a batch goes on with a curve that is drawn or one whose values
\* overflow.
LaterVectors == { <<Fin(1), Fin(0)>>, <<Fin(30), Fin(30), Fin(0)>> }

RECURSIVE BatchesOfLen(_)
BatchesOfLen(n) ==
    IF n = 0 THEN { <<>> }
    ELSE IF n <= 2
    THEN { Append(b, e) : b \in BatchesOfLen(n - 1), e \in EntriesAt(n) }
    ELSE { Append(b, e) : b \in BatchesOfLen(n - 1),
                          e \in { d \in EntriesAt(n) : d.coefficients \in LaterVectors } }

Batches == UNION { BatchesOfLen(n) : n \in 0..MaxCurves }

\* X ranges: width a multiple of NumPoints - 1; one empty and one reversed.
XRanges == { <<-2, -2 + (NumPoints - 1)>>, <<0, 0>>, <<1, 0>> }

\* Y ranges as passed by the caller, multiplied by PadDen.
YRanges == { <<None, None>>, <<Some(PadDen * 1), Some(PadDen * 5)>> }

Groupings == { "All in One", "One per Curve" }

\* A call with the smallest palette and no legend text.
NoLegend == num_colors = 1 /\ custom_legends = ""

\* A call of plot_graphs with no load at hand.
NoFile == [kind |-> "none", columns |-> 0, rows |-> <<>>]
NoLoader == uploaded_file = NoFile /\ index = 0 /\ skipped_rows = <<>>

Init ==
    /\ data_ref \in Batches
    /\ \E xr \in XRanges : x_min = xr[1] /\ x_max = xr[2]
    /\ \E yr \in YRanges : y_min = yr[1] /\ y_max = yr[2]
    /\ plot_grouping \in Groupings
    /\ auto_scale_y \in BOOLEAN
    /\ stop_y_exit \in BOOLEAN
    /\ stop_x_exit \in BOOLEAN
    /\ debug \in BOOLEAN
    /\ use_colorful \in BOOLEAN
    \* validation of a reversed X range reads no other argument: one
    \* configuration stands for all of them
    /\ x_min > x_max =>
          /\ y_min = None
          /\ plot_grouping = "All in One"
          /\ ~auto_scale_y /\ ~stop_y_exit /\ ~stop_x_exit /\ ~debug /\ use_colorful
    \* debug only adds messages about the curve at hand: it is drawn with
    \* the batches of at most one curve
    /\ Len(data_ref) > 1 => ~debug
    /\ NoLegend
    /\ NoLoader
    /\ pc = "call"
    /\ i = 1
    /\ all_y_vals = <<>>
    /\ plot_data = <<>>
    /\ successful_plots = 0
    /\ final_y_min = None
    /\ final_y_max = None
    /\ y_range = <<>>
    /\ curve_y_min = None
    /\ curve_y_max = None
    /\ skipped_curves = <<>>
    /\ figs = <<>>
    /\ plotted = <<>>
    /\ ylim = None
    /\ exc = ""

\* ----------------------------------------------------------------- actions
Raise(e) == pc' = "raised" /\ exc' = e

\* One call of ax.plot: the curve, the points, the Y range it was filtered
\* by, the color and the label of the curve.
Plot(n, r, lo, hi, color) ==
    [entry |-> n, name |-> data_ref[n].name, points |-> r.points,
     y_lo |-> lo, y_hi |-> hi, color |-> color, label |-> Label(n)]

\* src/app.py 543-607, 687: the Generate Plot button.  The app has checked
\* x_min < x_max and y_min < y_max (174-187), passes no Y bounds under
\* auto-scale (552-557), and calls plot_graphs with three keyword arguments
\* the function does not take.
AppGeneratePlot ==
    /\ pc = "call"
    /\ data_ref # <<>>
    /\ \A n \in 1..Len(data_ref) : data_ref[n].has_keys
    /\ x_min < x_max
    /\ IF auto_scale_y THEN y_min = None /\ y_max = None
       ELSE y_min # None /\ y_max # None /\ Val(y_min) < Val(y_max)
    /\ Raise("TypeError")
    /\ UNCHANGED <<args, loader, locals, plotted, ylim>>

\* PlotGraphs returning an empty list of messages for an empty batch.
PlotGraphsNoNote ==
    /\ pc = "call"
    /\ IF x_min > x_max
       THEN Raise("ValueError") /\ UNCHANGED skipped_curves
       ELSE IF data_ref = <<>>
            THEN pc' = "returned" /\ UNCHANGED <<skipped_curves, exc>>
            ELSE /\ pc' = IF plot_grouping = "All in One" THEN "first_pass" ELSE "per_curve"
                 /\ UNCHANGED <<skipped_curves, exc>>
    /\ UNCHANGED <<args, loader, i, all_y_vals, plot_data, successful_plots, final_y_min,
                   final_y_max, y_range, curve_y_min, curve_y_max, figs, plotted, ylim>>

\* Lines 20-28, 324, 400: input validation and the choice of grouping.
PlotGraphs ==
    /\ pc = "call"
    /\ IF x_min > x_max
       THEN Raise("ValueError") /\ UNCHANGED skipped_curves
       ELSE IF data_ref = <<>>
            THEN /\ pc' = "returned"
                 /\ skipped_curves' = <<Msg("no_data", "")>>
                 /\ exc' = exc
            ELSE /\ pc' = IF plot_grouping = "All in One" THEN "first_pass" ELSE "per_curve"
                 /\ UNCHANGED <<skipped_curves, exc>>
    /\ UNCHANGED <<args, loader, i, all_y_vals, plot_data, successful_plots, final_y_min,
                   final_y_max, y_range, curve_y_min, curve_y_max, figs, plotted, ylim>>

\* Lines 335-348: one iteration of the first pass of "All in One".
FirstPass ==
    /\ pc = "first_pass"
    /\ LET entry == data_ref[i]
           r == evaluate_curve_for_scaling(entry, ~stop_y_exit)
       IN IF ~entry.has_keys
          THEN /\ skipped_curves' = Append(skipped_curves, EntryMsg("missing_key", i - 1))
               /\ UNCHANGED <<all_y_vals, plot_data, successful_plots, y_range>>
          ELSE /\ y_range' = r.y
               /\ IF ~r.none /\ Len(r.y) > 0
                  THEN /\ all_y_vals' = all_y_vals \o r.y
                       /\ plot_data' = Append(plot_data, i)
                       /\ successful_plots' = successful_plots + 1
                  ELSE UNCHANGED <<all_y_vals, plot_data, successful_plots>>
               /\ UNCHANGED skipped_curves
    /\ i' = i + 1
    /\ pc' = IF i = Len(data_ref) THEN "auto_scale" ELSE "first_pass"
    /\ UNCHANGED <<args, loader, final_y_min, final_y_max, curve_y_min, curve_y_max,
                   figs, plotted, ylim, exc>>

\* Lines 350-363: the shared Y range of "All in One".
AutoScale ==
    /\ pc = "auto_scale"
    /\ IF auto_scale_y /\ all_y_vals # <<>> /\ successful_plots > 0
       THEN /\ final_y_min' = PaddedMin(all_y_vals)
            /\ final_y_max' = PaddedMax(all_y_vals)
       ELSE /\ final_y_min' = y_min
            /\ final_y_max' = y_max
    /\ i' = 1
    /\ pc' = IF plot_data = <<>> THEN "setup_axes" ELSE "second_pass"
    /\ UNCHANGED <<args, loader, all_y_vals, plot_data, successful_plots, y_range,
                   curve_y_min, curve_y_max, skipped_curves, figs, plotted, ylim, exc>>

\* SecondPass resolving the range again from the values of the curve at hand.
SecondPassOwnRange ==
    /\ pc = "second_pass"
    /\ LET n == plot_data[i]
           own == evaluate_curve_for_scaling(data_ref[n], ~stop_y_exit).y
           lo == IF auto_scale_y THEN PaddedMin(own) ELSE final_y_min
           hi == IF auto_scale_y THEN PaddedMax(own) ELSE final_y_max
           r == plot_single_curve(data_ref[n], lo, hi)
       IN /\ final_y_min' = lo
          /\ final_y_max' = hi
          /\ skipped_curves' = skipped_curves \o r.diags
          /\ plotted' = IF r.status = "skip" THEN plotted
                        ELSE Append(plotted, Plot(n, r, lo, hi, ColorAllInOne(n)))
          /\ IF r.status \notin {"ok", "skip"}
             THEN Raise(r.status) /\ i' = i
             ELSE /\ i' = i + 1
                  /\ pc' = IF i = Len(plot_data) THEN "setup_axes" ELSE "second_pass"
                  /\ exc' = exc
    /\ UNCHANGED <<args, loader, all_y_vals, plot_data, successful_plots, y_range,
                   curve_y_min, curve_y_max, figs, ylim>>

\* Lines 368-383: one iteration of the second pass of "All in One".
SecondPass ==
    /\ pc = "second_pass"
    /\ LET n == plot_data[i]
           r == plot_single_curve(data_ref[n], final_y_min, final_y_max)
       IN /\ skipped_curves' = skipped_curves \o r.diags
          /\ plotted' = IF r.status = "skip" THEN plotted
                        ELSE Append(plotted, Plot(n, r, final_y_min, final_y_max,
                                                  ColorAllInOne(n)))
          /\ IF r.status \notin {"ok", "skip"}
             THEN Raise(r.status) /\ i' = i
             ELSE /\ i' = i + 1
                  /\ pc' = IF i = Len(plot_data) THEN "setup_axes" ELSE "second_pass"
                  /\ exc' = exc
    /\ UNCHANGED <<args, loader, all_y_vals, plot_data, successful_plots, final_y_min,
                   final_y_max, y_range, curve_y_min, curve_y_max, figs, ylim>>

\* Lines 385-398: setup_axes for the one figure, then figs.append.
SetupAxesAll ==
    /\ pc = "setup_axes"
    /\ ylim' = SetYlim(final_y_min, final_y_max)
    /\ IF setup_axes = "ok"
       THEN figs' = Append(figs, "All Curves") /\ pc' = "return" /\ exc' = exc
       ELSE Raise(setup_axes) /\ figs' = figs
    /\ UNCHANGED <<args, loader, i, all_y_vals, plot_data, successful_plots, final_y_min,
                   final_y_max, y_range, curve_y_min, curve_y_max, skipped_curves,
                   plotted>>

\* CurveRange scaled from the values of every curve of the batch.
CurveRangeShared(entry) ==
    LET Collected(n) ==
            IF data_ref[n].has_keys
            THEN evaluate_curve_for_scaling(data_ref[n], ~stop_y_exit).y ELSE <<>>
        RECURSIVE Union(_)
        Union(n) == IF n = 0 THEN <<>> ELSE Union(n - 1) \o Collected(n)
        r == evaluate_curve_for_scaling(entry, ~stop_y_exit)
        all == Union(Len(data_ref))
    IN IF auto_scale_y /\ ~r.none /\ Len(r.y) > 0
       THEN [y |-> r.y, lo |-> PaddedMin(all), hi |-> PaddedMax(all)]
       ELSE [y |-> IF auto_scale_y THEN r.y ELSE y_range, lo |-> y_min, hi |-> y_max]

\* Lines 415-430: the Y range of one curve of "One per Curve".
CurveRange(entry) ==
    LET r == evaluate_curve_for_scaling(entry, ~stop_y_exit)
    IN IF auto_scale_y /\ ~r.none /\ Len(r.y) > 0
       THEN [y |-> r.y, lo |-> PaddedMin(r.y), hi |-> PaddedMax(r.y)]
       ELSE [y |-> IF auto_scale_y THEN r.y ELSE y_range, lo |-> y_min, hi |-> y_max]

\* Lines 402-452: one iteration of the loop of "One per Curve".
PerCurve ==
    /\ pc = "per_curve"
    /\ LET entry == data_ref[i]
           cr == CurveRange(entry)
           r == plot_single_curve(entry, cr.lo, cr.hi)
       IN IF ~entry.has_keys
          THEN /\ skipped_curves' = Append(skipped_curves, EntryMsg("missing_key", i - 1))
               /\ i' = i + 1
               /\ pc' = IF i = Len(data_ref) THEN "return" ELSE "per_curve"
               /\ UNCHANGED <<y_range, curve_y_min, curve_y_max, plotted, ylim, figs, exc>>
          ELSE /\ y_range' = cr.y
               /\ curve_y_min' = cr.lo
               /\ curve_y_max' = cr.hi
               /\ skipped_curves' = skipped_curves \o r.diags
               /\ plotted' = IF r.status = "skip" THEN plotted
                             ELSE Append(plotted, Plot(i, r, cr.lo, cr.hi, ColorPerCurve(i)))
               /\ IF r.status = "skip"
                  THEN /\ i' = i + 1
                       /\ pc' = IF i = Len(data_ref) THEN "return" ELSE "per_curve"
                       /\ UNCHANGED <<ylim, figs, exc>>
                  ELSE IF r.status # "ok"
                  THEN Raise(r.status) /\ UNCHANGED <<i, ylim, figs>>
                  ELSE /\ ylim' = SetYlim(cr.lo, cr.hi)
                       /\ IF setup_axes = "ok"
                          THEN /\ figs' = Append(figs, entry.name)
                               /\ i' = i + 1
                               /\ pc' = IF i = Len(data_ref) THEN "return" ELSE "per_curve"
                               /\ exc' = exc
                          ELSE Raise(setup_axes) /\ UNCHANGED <<i, figs>>
    /\ UNCHANGED <<args, loader, all_y_vals, plot_data, successful_plots, final_y_min, final_y_max>>

\* Lines 454-459: return figs, skipped_curves.
Return ==
    /\ pc = "return"
    /\ pc' = "returned"
    /\ UNCHANGED <<args, loader, locals, plotted, ylim, exc>>

Next ==
    \/ AppGeneratePlot
    \/ PlotGraphs
    \/ FirstPass
    \/ AutoScale
    \/ SecondPass
    \/ SetupAxesAll
    \/ PerCurve
    \/ Return

Spec == Init /\ [][Next]_vars

\* ------------------------------------------- calls with degenerate vectors
\* The locals of plot_graphs, the renderer and the outcome at the call.
InitLocals ==
    /\ pc = "call"
    /\ i = 1
    /\ all_y_vals = <<>>
    /\ plot_data = <<>>
    /\ successful_plots = 0
    /\ final_y_min = None
    /\ final_y_max = None
    /\ y_range = <<>>
    /\ curve_y_min = None
    /\ curve_y_max = None
    /\ skipped_curves = <<>>
    /\ figs = <<>>
    /\ plotted = <<>>
    /\ ylim = None
    /\ exc = ""

\* [0, 0, 0]: every coefficient is zero.
ZeroVector == <<Fin(0), Fin(0), Fin(0)>>

\* MaxDegree + 2 coefficients, x^2 + 3 written with leading zeros; its first
\* MaxDegree + 1 coefficients are the line y = x.
LongVector ==
    [n \in 1..(MaxDegree + 2) |->
        IF n = MaxDegree THEN Fin(1)
        ELSE IF n = MaxDegree + 2 THEN Fin(3) ELSE Fin(0)]

DegenerateVectors == { ZeroVector, LongVector }

DegenerateEntriesAt(n) ==
    { [has_keys |-> TRUE, name |-> CurveNames[n], coefficients |-> c] :
        c \in DegenerateVectors }
    \cup { [has_keys |-> FALSE, name |-> "", coefficients |-> <<>>] }

RECURSIVE DegenerateBatchesOfLen(_)
DegenerateBatchesOfLen(n) ==
    IF n = 0 THEN { <<>> }
    ELSE { Append(b, e) : b \in DegenerateBatchesOfLen(n - 1), e \in DegenerateEntriesAt(n) }

DegenerateBatches == UNION { DegenerateBatchesOfLen(n) : n \in 1..MaxCurves }

\* plot_graphs called directly with such batches, over a proper X range.
InitDegree ==
    /\ data_ref \in DegenerateBatches
    /\ x_min = -2 /\ x_max = -2 + (NumPoints - 1)
    /\ \E yr \in YRanges : y_min = yr[1] /\ y_max = yr[2]
    /\ plot_grouping \in Groupings
    /\ auto_scale_y \in BOOLEAN
    /\ stop_y_exit \in BOOLEAN
    /\ stop_x_exit \in BOOLEAN
    /\ debug \in BOOLEAN
    /\ use_colorful \in BOOLEAN
    /\ NoLegend
    /\ NoLoader
    /\ InitLocals

SpecDegree == InitDegree /\ [][Next]_vars

\* ------------------------------------------------ calls with legend texts
\* Batches of lines y = x named by position, some entries without keys.
LegendEntriesAt(n) ==
    { [has_keys |-> TRUE, name |-> CurveNames[n], coefficients |-> <<Fin(1), Fin(0)>>],
      [has_keys |-> FALSE, name |-> "", coefficients |-> <<>>] }

RECURSIVE LegendBatchesOfLen(_)
LegendBatchesOfLen(n) ==
    IF n = 0 THEN { <<>> }
    ELSE { Append(b, e) : b \in LegendBatchesOfLen(n - 1), e \in LegendEntriesAt(n) }

LegendBatches == UNION { LegendBatchesOfLen(n) : n \in 1..MaxCurves }

\* Texts of the Custom Legends box.
LegendTexts ==
    { "",
      "A",
      "A: red",
      "A: red\nA",
      "A\nA: red",
      "A:red\nA:#ff7f0e",
      " B :  blue \n\nA",
      "B:red:x",
      "D: red\nE" }

\* Palette sizes: one color, two, and more than DEFAULT_COLORS holds.
PaletteSizes == { 1, 2, Len(DEFAULT_COLORS) + 1 }

InitLegend ==
    /\ data_ref \in LegendBatches
    /\ x_min = -2 /\ x_max = -2 + (NumPoints - 1)
    /\ y_min = None /\ y_max = None
    /\ plot_grouping \in Groupings
    /\ auto_scale_y \in BOOLEAN
    /\ stop_y_exit = FALSE
    /\ stop_x_exit = FALSE
    /\ debug = FALSE
    /\ use_colorful \in BOOLEAN
    /\ num_colors \in PaletteSizes
    /\ custom_legends \in LegendTexts
    /\ NoLoader
    /\ InitLocals

SpecLegend == InitLegend /\ [][Next]_vars

\* ============================================================ data_loader
\* Cells of the sheet.  A cell is empty (NaN to pandas), a text, a number
\* sg * m * 10^e with one digit m (sg = 0 for zero), or an integer beyond the
\* range of a double, which openpyxl reads as an int; a coefficient of the
\* loader is a number.
NaNCell == [t |-> "nan", s |-> "", sg |-> 0, m |-> 0, e |-> 0]
BigInt == [t |-> "big", s |-> "", sg |-> 1, m |-> 1, e |-> 400]
Text(s) == [t |-> "str", s |-> s, sg |-> 0, m |-> 0, e |-> 0]
Num(sg, m, e) == [t |-> "num", s |-> "", sg |-> sg, m |-> m, e |-> e]
Zero == Num(0, 0, 0)
isna(cell) == cell.t = "nan"

\* abs(c) < 10^k and abs(c) > 10^k
AbsBelow(c, k) == c.sg = 0 \/ c.e < k
AbsAbove(c, k) == c.sg # 0 /\ (c.e > k \/ (c.e = k /\ c.m > 1))

\* abs(a) > abs(b), and abs(a) / abs(b) > 10^k for non-zero a, b
AbsGreater(a, b) ==
    a.sg # 0 /\ (b.sg = 0 \/ a.e > b.e \/ (a.e = b.e /\ a.m > b.m))
RatioAbove(a, b, k) ==
    \/ a.e - b.e > k
    \/ a.e - b.e = k /\ a.m > b.m

\* Thresholds of the loader, as exponents of ten.
MAX_DEGREE == 10
ZeroExp == 0 - 12
SignificantExp == 0 - 10
HugeExp == 15
RatioExp == 12

\* -------------------------------------------------------------- strings
UpperCase == "ABCDEFGHIJKLMNOPQRSTUVWXYZ"
LowerCase == "abcdefghijklmnopqrstuvwxyz"
Digits == "0123456789"

At(s, n) == SubSeq(s, n, n)
IndexIn(c, alphabet) ==
    IF \E n \in 1..Len(alphabet) : At(alphabet, n) = c
    THEN CHOOSE n \in 1..Len(alphabet) : At(alphabet, n) = c
    ELSE 0

\* s.lower()
RECURSIVE lower(_)
lower(s) ==
    IF s = "" THEN ""
    ELSE (IF IndexIn(Head(s), UpperCase) > 0
          THEN At(LowerCase, IndexIn(Head(s), UpperCase))
          ELSE Head(s)) \o lower(Tail(s))

\* s.replace('  ', ' ')
RECURSIVE replace_double_blank(_)
replace_double_blank(s) ==
    IF Len(s) < 2 THEN s
    ELSE IF SubSeq(s, 1, 2) = "  " THEN " " \o replace_double_blank(SubSeq(s, 3, Len(s)))
    ELSE Head(s) \o replace_double_blank(Tail(s))

\* pattern in s, s.startswith(prefix)
Contains(s, pattern) ==
    \E k \in 1..(Len(s) - Len(pattern) + 1) : SubSeq(s, k, k + Len(pattern) - 1) = pattern
startswith(s, prefix) == Len(s) >= Len(prefix) /\ SubSeq(s, 1, Len(prefix)) = prefix

\* float(s) succeeds.  Of the forms float() accepts, those without sign and
\* exponent: digits with at most one point, and the words nan, inf, infinity.
FloatParses(s) ==
    LET w == lower(strip(s)) IN
    \/ w \in {"nan", "inf", "infinity"}
    \/ /\ \E n \in 1..Len(w) : IndexIn(At(w, n), Digits) > 0
       /\ \A n \in 1..Len(w) : IndexIn(At(w, n), Digits) > 0 \/ At(w, n) = "."
       /\ Cardinality({ n \in 1..Len(w) : At(w, n) = "." }) <= 1

\* float(s) for a text of one digit, the numeric texts drawn as coefficients.
FloatOf(s) ==
    LET d == IndexIn(strip(s), Digits) - 1
    IN IF d = 0 THEN Zero ELSE Num(1, d, 0)

\* str(cell), for the cells drawn as names and coefficients: a text is
\* itself, an empty cell reads 'nan', a number has digits.
str(cell) ==
    IF cell.t = "str" THEN cell.s ELSE IF cell.t = "nan" THEN "nan" ELSE "1.0"

\* ------------------------------------------------------ is_valid_data_row
\* A row is a sequence of cells: row[1] the name, the rest the coefficients.
header_patterns ==
    { "name", "curve", "polynomial", "coeff", "coefficient", "degree", "header",
      "title", "data", "row", "index", "id", "label", "a0", "a1", "a2", "b0", "c0",
      "x", "y" }

is_valid_data_row(row) ==
    LET name_str == lower(strip(str(row[1]))) IN
    /\ Len(row) > 0
    /\ \E n \in 1..Len(row) : ~isna(row[n])
    /\ ~isna(row[1])
    /\ name_str \notin header_patterns
    /\ ~startswith(name_str, "header") /\ ~startswith(name_str, "title")
    /\ ~FloatParses(name_str)
    /\ Len(name_str) >= 2
    /\ \E n \in 2..Len(row) : ~isna(row[n]) /\ strip(str(row[n])) # ""

\* ------------------------------------------------------- extract_valid_name
invalid_patterns ==
    { "unnamed", "curve", "poly", "equation", "data", "row", "sample", "test",
      "example", "default" }

\* Returns "" for None: a name that is returned is never empty.
extract_valid_name(name_raw) ==
    LET stripped == strip(str(name_raw))
        name == replace_double_blank(stripped)
        name_lower == lower(name)
    IN
    IF isna(name_raw) THEN ""
    ELSE IF stripped = "" \/ lower(stripped) \in {"nan", "none", "null"}
    THEN ""
    ELSE IF \E pattern \in invalid_patterns : Contains(name_lower, pattern) THEN ""
    ELSE IF Len(name) > 100 THEN SubSeq(name, 1, 50) \o "..."
    ELSE name

\* ----------------------------------------------- extract_valid_coefficients
\* Lines 224-249: the coefficient of one cell.
CoefficientOf(value) ==
    IF isna(value) THEN Zero
    ELSE IF strip(str(value)) = "" \/ lower(strip(str(value))) \in {"nan", "none", "null"}
    THEN Zero
    ELSE IF value.t = "num" THEN value
    ELSE IF FloatParses(value.s) THEN FloatOf(value.s)
    ELSE Zero

AllEffectivelyZero(coefficients) ==
    \A n \in 1..Len(coefficients) : AbsBelow(coefficients[n], ZeroExp)

\* Line 239: float(value) raises OverflowError on an int beyond the range of
\* a double; the handlers (241, 246) are for ValueError and TypeError.
Overflows(coeffs_raw) == \E n \in 1..Len(coeffs_raw) : coeffs_raw[n].t = "big"

\* Returns <<>> for None.
extract_valid_coefficients(coeffs_raw) ==
    LET coefficients == [n \in 1..Len(coeffs_raw) |-> CoefficientOf(coeffs_raw[n])]
    IN IF Len(coeffs_raw) = 0 THEN <<>>
       ELSE IF AllEffectivelyZero(coefficients) THEN <<>>
       ELSE coefficients

\* ------------------------------------------------------ validate_polynomial
\* np.max(np.abs(coeffs)), np.min(np.abs(coeffs)): a coefficient of that size
AbsMax(coeffs) ==
    CHOOSE a \in { coeffs[n] : n \in 1..Len(coeffs) } :
        \A n \in 1..Len(coeffs) : ~AbsGreater(coeffs[n], a)
AbsMin(coeffs) ==
    CHOOSE a \in { coeffs[n] : n \in 1..Len(coeffs) } :
        \A n \in 1..Len(coeffs) : ~AbsGreater(a, coeffs[n])

\* Returns "" for (True, ...), else the kind of the warning.
validate_polynomial(coefficients) ==
    LET non_zero_coeffs == SelectSeq(coefficients, LAMBDA c : AbsAbove(c, ZeroExp))
    IN IF coefficients = <<>> THEN "empty_coefficients"
       ELSE IF AllEffectivelyZero(coefficients) THEN "all_zero"
       ELSE IF Len(coefficients) - 1 > 10 THEN "degree_exceeds"
       ELSE IF AbsAbove(AbsMax(coefficients), HugeExp) THEN "extremely_large"
       ELSE IF \A n \in 1..Len(coefficients) : ~AbsAbove(coefficients[n], SignificantExp)
       THEN "no_significant"
       ELSE IF /\ Len(coefficients) - 1 > 3
               /\ Len(non_zero_coeffs) > 1
               /\ RatioAbove(AbsMax(non_zero_coeffs), AbsMin(non_zero_coeffs), RatioExp)
       THEN "poorly_conditioned"
       ELSE ""

\* -------------------------------------------------------------- process_row
\* A message of skipped_rows: its kind, the row index and the name it holds.
RowMsg(kind, row_index, name) == [kind |-> kind, index |-> row_index, name |-> name]

\* Lines 103-107: the leading coefficients below the threshold are removed
\* while more than one coefficient is left.
RECURSIVE RemoveLeadingZeros(_)
RemoveLeadingZeros(coefficients) ==
    IF Len(coefficients) > 1 /\ AbsBelow(coefficients[1], ZeroExp)
    THEN RemoveLeadingZeros(Tail(coefficients))
    ELSE coefficients

\* coefficients[:max_degree + 1] when degree > max_degree
TruncateRow(coefficients, max_degree) ==
    IF Len(coefficients) - 1 > max_degree
    THEN SubSeq(coefficients, 1, max_degree + 1)
    ELSE coefficients

\* DuplicateName comparing the names as they are written.
DuplicateNameCaseSensitive(entries, name) ==
    \E n \in 1..Len(entries) : entries[n].name = name

\* Line 81: any(entry['name'].lower() == name.lower() for entry in data_ref)
DuplicateName(entries, name) ==
    \E n \in 1..Len(entries) : lower(entries[n].name) = lower(name)

\* Returns [data_ref, skipped_rows, exc]: the two lists after the call and
\* the exception that leaves it ("" when it returns).
process_row(row, row_index, entries, skipped, max_degree) ==
    LET name == extract_valid_name(row[1])
        raw == extract_valid_coefficients(Tail(row))
        degree == Len(raw) - 1
        coefficients == RemoveLeadingZeros(TruncateRow(raw, max_degree))
        warning == validate_polynomial(coefficients)
        Skipped(kind, n) ==
            [data_ref |-> entries,
             skipped_rows |-> Append(skipped, RowMsg(kind, row_index, n)), exc |-> ""]
    IN IF ~is_valid_data_row(row)
       THEN [data_ref |-> entries, skipped_rows |-> skipped, exc |-> ""]
       ELSE IF name = "" THEN Skipped("invalid_name", "")
       ELSE IF DuplicateName(entries, name) THEN Skipped("duplicate_name", name)
       ELSE IF Overflows(Tail(row))
       THEN [data_ref |-> entries, skipped_rows |-> skipped, exc |-> "OverflowError"]
       ELSE IF raw = <<>> THEN Skipped("no_valid_coefficients", name)
       ELSE IF AllEffectivelyZero(raw) THEN Skipped("all_zero", name)
       ELSE IF AllEffectivelyZero(coefficients) THEN Skipped("no_nonzero_after_cleaning", name)
       ELSE IF warning # "" THEN Skipped(warning, name)
       ELSE [data_ref |-> Append(entries,
                              [name |-> name, coefficients |-> coefficients,
                               original_degree |-> degree, row_index |-> row_index]),
             skipped_rows |-> skipped, exc |-> ""]

\* ------------------------------------------------------- generate_debug_data
\* row_index, 'debug' in the source, is held as -1.
generate_debug_data ==
    << [name |-> "Linear Growth", coefficients |-> <<Num(1, 1, 0 - 3), Zero>>,
        original_degree |-> 1, row_index |-> -1],
       [name |-> "Parabolic",
        coefficients |-> <<Num(1, 1, 0 - 6), Num(-1, 1, 0 - 2), Num(1, 5, 1)>>,
        original_degree |-> 2, row_index |-> -1],
       [name |-> "Cubic Curve",
        coefficients |-> <<Num(1, 1, 0 - 10), Num(-1, 1, 0 - 6), Num(1, 1, 0 - 2), Num(-1, 1, 0)>>,
        original_degree |-> 3, row_index |-> -1],
       [name |-> "Oscillatory",
        coefficients |-> <<Num(1, 1, 0 - 6), Zero, Zero, Zero, Zero, Zero, Num(1, 1, 0 - 3)>>,
        original_degree |-> 6, row_index |-> -1],
       [name |-> "Baseline", coefficients |-> <<Num(1, 1, 3)>>,
        original_degree |-> 0, row_index |-> -1] >>

\* ------------------------------------------------------------- the sheets
MaxRows == 2

One == Num(1, 1, 0)
Row(name, cells) == <<name>> \o cells

\* Rows of a sheet of three columns.
NarrowRows ==
    { Row(Text("Alpha"), <<One, Zero>>),
      Row(Text("alpha"), <<One, One>>),
      Row(Text("Beta"), <<Num(1, 1, 0 - 11), One>>),
      Row(Text(" Beta "), <<Num(1, 1, 0 - 13), One>>),
      Row(Text("Gamma"), <<Zero, Zero>>),
      Row(Text("Gamma"), <<NaNCell, NaNCell>>),
      Row(Text("Gamma"), <<One, NaNCell>>),
      Row(Text("name"), <<One, Zero>>),
      Row(Text("Test A"), <<One, Zero>>),
      Row(NaNCell, <<One, Zero>>),
      Row(Text("Z"), <<One, Zero>>),
      Row(Text("42"), <<One, Zero>>),
      Row(Text("Delta"), <<Text("abc"), Text("2")>>),
      Row(Text("Delta"), <<Num(1, 1, 16), One>>),
      Row(Text("Eps"), <<Num(-1, 1, 0 - 11), Text(" ")>>),
      Row(Text("Omega"), <<One, BigInt>>) }

\* Rows of a sheet of MAX_DEGREE + 3 columns: MAX_DEGREE + 2 coefficients.
Cells(first, rest, last) ==
    [n \in 1..(MAX_DEGREE + 2) |->
        IF n = 1 THEN first ELSE IF n = MAX_DEGREE + 2 THEN last ELSE rest]

WideRows ==
    { Row(Text("Alpha"), Cells(One, One, One)),
      Row(Text("Beta"), Cells(Zero, One, One)),
      Row(Text("Gamma"), Cells(Zero, Zero, One)),
      Row(Text("Delta"), Cells(One, NaNCell, NaNCell)),
      Row(Text("Eps"), Cells(Num(1, 1, 13), One, One)),
      Row(Text("Zeta"), Cells(One, Num(1, 1, 0 - 13), One)) }

\* The rows that stand before the last two rows of a longer sheet: rows that
\* are accepted and one process_row raises on.
LeadRows ==
    { Row(Text("Alpha"), <<One, Zero>>),
      Row(Text("Omega"), <<One, BigInt>>),
      Row(Text("Alpha"), Cells(One, One, One)) }

\* The sheets of n rows: every row and every pair of rows, and the pairs with
\* rows of LeadRows before them.
RECURSIVE SheetsOf(_, _)
SheetsOf(rows, n) ==
    IF n = 0 THEN { <<>> }
    ELSE IF n <= 2
    THEN { Append(sheet, row) : sheet \in SheetsOf(rows, n - 1), row \in rows }
    ELSE { <<row>> \o sheet : row \in rows \cap LeadRows, sheet \in SheetsOf(rows, n - 1) }

Sheet(columns, rows) == [kind |-> "sheet", columns |-> columns, rows |-> rows]

\* What load_reference_data is called with: no file, a file openpyxl cannot
\* read, and the sheets of one, three and MAX_DEGREE + 3 columns.
Files ==
    { NoFile, [kind |-> "unreadable", columns |-> 0, rows |-> <<>>] }
    \cup { Sheet(0, <<>>), Sheet(1, <<<<Text("Alpha")>>>>) }
    \cup { Sheet(3, rows) : rows \in UNION { SheetsOf(NarrowRows, n) : n \in 1..MaxRows } }
    \cup { Sheet(MAX_DEGREE + 3, rows) :
             rows \in UNION { SheetsOf(WideRows, n) : n \in 1..MaxRows } }

\* ------------------------------------------------------ load_reference_data
\* What a load leaves alone: the arguments and the state of plot_graphs.
plot_state ==
    <<x_min, x_max, y_min, y_max, plot_grouping, auto_scale_y, stop_y_exit,
      stop_x_exit, use_colorful, num_colors, custom_legends, locals, plotted,
      ylim, exc>>

\* load_reference_data(uploaded_file, debug) is called; no plot is at hand.
\* debug only decides on the sample data at the end: it is drawn with the
\* sheets of at most two rows.
InitLoader ==
    /\ uploaded_file \in Files
    /\ debug \in BOOLEAN
    /\ Len(uploaded_file.rows) > 2 => ~debug
    /\ data_ref = <<>>
    /\ skipped_rows = <<>>
    /\ index = 0
    /\ pc = "load"
    /\ x_min = 0 /\ x_max = 0 /\ y_min = None /\ y_max = None
    /\ plot_grouping = "All in One"
    /\ auto_scale_y = FALSE /\ stop_y_exit = FALSE /\ stop_x_exit = FALSE
    /\ use_colorful = FALSE
    /\ NoLegend
    /\ i = 1
    /\ all_y_vals = <<>>
    /\ plot_data = <<>>
    /\ successful_plots = 0
    /\ final_y_min = None
    /\ final_y_max = None
    /\ y_range = <<>>
    /\ curve_y_min = None
    /\ curve_y_max = None
    /\ skipped_curves = <<>>
    /\ figs = <<>>
    /\ plotted = <<>>
    /\ ylim = None
    /\ exc = ""

\* Lines 26-37, 43-46: the file is read and the frame is looked at.
ReadExcel ==
    /\ pc = "load"
    /\ IF uploaded_file.kind = "none"
       THEN pc' = "finish" /\ UNCHANGED skipped_rows
       ELSE IF uploaded_file.kind = "unreadable"
       THEN /\ skipped_rows' = Append(skipped_rows, RowMsg("parsing_failed", -1, ""))
            /\ pc' = "finish"
       ELSE IF uploaded_file.rows = <<>> \/ uploaded_file.columns = 0
       THEN /\ skipped_rows' = Append(skipped_rows, RowMsg("empty_file", -1, ""))
            /\ pc' = "finish"
       ELSE IF uploaded_file.columns < 2
       THEN /\ skipped_rows' = Append(skipped_rows, RowMsg("too_few_columns", -1, ""))
            /\ pc' = "finish"
       ELSE pc' = "rows" /\ UNCHANGED skipped_rows
    /\ UNCHANGED <<data_ref, debug, uploaded_file, index, plot_state>>

\* ProcessRow with a handler that drops the entries accepted so far.
ProcessRowDiscarding ==
    /\ pc = "rows"
    /\ LET r == process_row(uploaded_file.rows[index + 1], index, data_ref,
                            skipped_rows, MAX_DEGREE)
       IN IF r.exc # ""
          THEN /\ data_ref' = <<>>
               /\ skipped_rows' = Append(r.skipped_rows, RowMsg("parsing_failed", -1, ""))
               /\ pc' = "finish"
          ELSE /\ data_ref' = r.data_ref
               /\ skipped_rows' = r.skipped_rows
               /\ pc' = IF index + 1 = Len(uploaded_file.rows) THEN "finish" ELSE "rows"
    /\ index' = index + 1
    /\ UNCHANGED <<debug, uploaded_file, plot_state>>

\* Lines 39-46: one iteration of the loop over df_ref.iterrows(); index
\* counts the rows passed to process_row.  An exception that leaves
\* process_row ends the loop in the handler of line 43.
ProcessRow ==
    /\ pc = "rows"
    /\ LET r == process_row(uploaded_file.rows[index + 1], index, data_ref,
                            skipped_rows, MAX_DEGREE)
       IN /\ data_ref' = r.data_ref
          /\ IF r.exc # ""
             THEN /\ skipped_rows' = Append(r.skipped_rows, RowMsg("parsing_failed", -1, ""))
                  /\ pc' = "finish"
             ELSE /\ skipped_rows' = r.skipped_rows
                  /\ pc' = IF index + 1 = Len(uploaded_file.rows) THEN "finish" ELSE "rows"
    /\ index' = index + 1
    /\ UNCHANGED <<debug, uploaded_file, plot_state>>

\* Lines 48-62: the sample data of debug mode, then the return.
ReturnLoaded ==
    /\ pc = "finish"
    /\ IF data_ref = <<>> /\ debug
       THEN /\ skipped_rows' = Append(skipped_rows, RowMsg("using_default_data", -1, ""))
            /\ data_ref' = generate_debug_data
       ELSE UNCHANGED <<data_ref, skipped_rows>>
    /\ pc' = "loaded"
    /\ UNCHANGED <<debug, uploaded_file, index, plot_state>>

NextLoader ==
    \/ ReadExcel
    \/ ProcessRow
    \/ ReturnLoaded

SpecLoader == InitLoader /\ [][NextLoader]_vars

\* ============================================================== properties
\* Vocabulary of the properties.
FixedY == ~auto_scale_y /\ y_min # None /\ y_max # None

\* The samples of curve n of the batch, and their position against the
\* caller's Y range.
CurveSamples(n) == Samples(Truncate(data_ref[n].coefficients))
Inside(s) == isfinite(s.y) /\ PadDen * s.y.v >= Val(y_min) /\ PadDen * s.y.v <= Val(y_max)
Outside(s) == isfinite(s.y) /\ ~Inside(s)

\* The samples at which curve n is out of the Y range after having been in it.
ExitSamples(n) ==
    { k \in 1..NumPoints :
        /\ Outside(CurveSamples(n)[k])
        /\ \E j \in 1..(k - 1) : Inside(CurveSamples(n)[j]) }

\* Curve n is in range, leaves the range and comes back.
ReEnters(n) ==
    \E k \in ExitSamples(n) : \E l \in (k + 1)..NumPoints : Inside(CurveSamples(n)[l])

PointsOf(p) == { p.points[m] : m \in 1..Len(p.points) }
Plotted == { plotted[n] : n \in 1..Len(plotted) }
Messages == { skipped_curves[n] : n \in 1..Len(skipped_curves) }

\* C1: with stop_x_exit off, stop_y_exit on and fixed Y bounds, a curve that
\* is in range, leaves and re-enters is drawn up to its first exit only: no
\* point handed to ax.plot lies at or after the first exit sample.
C1_TruncatedAtFirstYExit ==
    (~stop_x_exit /\ stop_y_exit /\ FixedY) =>
        \A p \in Plotted :
            ReEnters(p.entry) =>
                \A pt \in PointsOf(p) : \A k \in ExitSamples(p.entry) : pt.k < k

\* C2: with both stop flags off and fixed Y bounds, a curve that is in range,
\* leaves and re-enters is not handed to ax.plot as one sequence that joins
\* the last point before the gap to the first point after it: consecutive
\* points of one call have no out-of-range sample between them.
C2_NoSequenceAcrossGap ==
    (~stop_x_exit /\ ~stop_y_exit /\ FixedY) =>
        \A p \in Plotted :
            \A m \in 1..(Len(p.points) - 1) :
                \A k \in (p.points[m].k + 1)..(p.points[m + 1].k - 1) :
                    ~Outside(CurveSamples(p.entry)[k])

\* C3: for a non-empty batch and x_min < x_max a render request does not
\* raise, whatever defects the curves have.
C3_RenderNeverRaises ==
    (data_ref # <<>> /\ x_min < x_max) => pc # "raised"

\* The entries handled so far are accounted for: drawn, or named by a message.
Accepted(n) == \E p \in Plotted : p.entry = n
Named(n) ==
    \E m \in Messages :
        \/ m.entry = n - 1
        \/ data_ref[n].has_keys /\ m.name = data_ref[n].name

\* Both loops of the grouping are over: what remains is setup_axes (All in
\* One) and the return statement.
BatchProcessed == pc \in {"setup_axes", "return", "returned"}

\* C4: once the batch is processed every entry is accepted or skipped with a
\* message naming it, in both groupings: no curve is dropped silently.
C4_NoSilentDrop ==
    BatchProcessed => \A n \in 1..Len(data_ref) : Accepted(n) \/ Named(n)

\* Curve n has been through plot_single_curve.
Handled(n) ==
    IF plot_grouping = "All in One"
    THEN /\ pc \in {"second_pass", "setup_axes", "raised"}
         /\ \E j \in 1..(i - 1) : j <= Len(plot_data) /\ plot_data[j] = n
    ELSE /\ pc \in {"per_curve", "return", "returned", "raised"}
         /\ n < i

Numeric(n) == data_ref[n].has_keys /\ ~ArrayFails(data_ref[n].coefficients)
FiniteSamples(n) == { k \in 1..NumPoints : isfinite(CurveSamples(n)[k].y) }
NoSampleInsideY(n) == \A k \in 1..NumPoints : ~Inside(CurveSamples(n)[k])
NoSampleInsideX(n) ==
    \A k \in 1..NumPoints : ~(CurveSamples(n)[k].x >= x_min /\ CurveSamples(n)[k].x <= x_max)
HasMessage(kind, n) == \E m \in Messages : m.kind = kind /\ m.name = data_ref[n].name

ResolvedAll ==
    /\ plot_grouping = "All in One"
    /\ pc \in {"second_pass", "setup_axes", "raised"}
    /\ auto_scale_y
    /\ all_y_vals # <<>>

\* The range of the curve at hand of "One per Curve" is resolved from
\* collected values.
ResolvedCurve ==
    /\ plot_grouping = "One per Curve"
    /\ pc \in {"per_curve", "return", "returned", "raised"}
    /\ auto_scale_y
    /\ y_range # <<>>

Elems(seq) == { seq[n] : n \in 1..Len(seq) }
SetMin(S) == CHOOSE v \in S : \A w \in S : v <= w
SetMax(S) == CHOOSE v \in S : \A w \in S : v >= w

\* lo, hi (held multiplied by PadDen) are a - 0.1*(b - a) and b + 0.1*(b - a):
\* below a, above b, the same distance from both.
PaddingLaw(lo, hi, a, b) ==
    /\ lo # None /\ hi # None
    /\ Val(lo) = PadDen * a - (b - a)
    /\ Val(hi) = PadDen * b + (b - a)
    /\ Val(lo) < PadDen * a
    /\ Val(hi) > PadDen * b
    /\ PadDen * a - Val(lo) = Val(hi) - PadDen * b

ValuesOf(n) ==
    IF data_ref[n].has_keys
    THEN Elems(evaluate_curve_for_scaling(data_ref[n], ~stop_y_exit).y)
    ELSE {}
UnionValues == UNION { ValuesOf(n) : n \in 1..Len(data_ref) }

\* The padded range of a set of values, held multiplied by PadDen.
RangeLo(S) ==
    IF SetMin(S) # SetMax(S)
    THEN Some(PadDen * SetMin(S) - (SetMax(S) - SetMin(S)))
    ELSE Some(PadDen * (SetMin(S) - 1))
RangeHi(S) ==
    IF SetMin(S) # SetMax(S)
    THEN Some(PadDen * SetMax(S) + (SetMax(S) - SetMin(S)))
    ELSE Some(PadDen * (SetMax(S) + 1))

\* The entry whose range curve_y_min, curve_y_max hold in "One per Curve".
CurveAtHand ==
    LET last == IF pc = "raised" THEN i ELSE i - 1
    IN CHOOSE n \in 1..last :
           /\ data_ref[n].has_keys
           /\ \A m \in (n + 1)..last : ~data_ref[m].has_keys

\* C8: under auto-scale, "All in One" resolves one range from the union of
\* the values of all curves and filters every curve by it; "One per Curve"
\* resolves the range of a curve from that curve's values alone, whatever
\* the other entries of the batch are.
C8_SharedVersusOwnRange ==
    /\ ResolvedAll =>
           /\ final_y_min = RangeLo(UnionValues)
           /\ final_y_max = RangeHi(UnionValues)
           /\ \A p \in Plotted : p.y_lo = final_y_min /\ p.y_hi = final_y_max
    /\ ResolvedCurve =>
           /\ curve_y_min = RangeLo(ValuesOf(CurveAtHand))
           /\ curve_y_max = RangeHi(ValuesOf(CurveAtHand))
           /\ \A p \in Plotted :
                  /\ p.y_lo = RangeLo(ValuesOf(p.entry))
                  /\ p.y_hi = RangeHi(ValuesOf(p.entry))

\* C8 witness: two curves with different values drawn in one figure, both
\* filtered by the range of the union, which is the range of neither alone.
C8_Witness ==
    /\ ResolvedAll
    /\ Len(plotted) = 2
    /\ RangeLo(ValuesOf(1)) # RangeLo(UnionValues)
    /\ RangeHi(ValuesOf(2)) # RangeHi(UnionValues)
    /\ \A p \in Plotted : p.y_lo = RangeLo(UnionValues) /\ p.y_hi = RangeHi(UnionValues)

\* The finite y values of curve n over the X range, Y unconstrained.
FiniteValues(n) == { CurveSamples(n)[k].y.v : k \in FiniteSamples(n) }
UnconstrainedValues == UNION { FiniteValues(plot_data[j]) : j \in 1..Len(plot_data) }

\* C9: under auto-scale the resolved range is computed with Y unconstrained:
\* it is the padded range of all finite values of the curves, whatever
\* y_min, y_max and stop_y_exit the caller passed.
C9_RangeIgnoresCallerY ==
    /\ ResolvedAll =>
           /\ final_y_min = RangeLo(UnconstrainedValues)
           /\ final_y_max = RangeHi(UnconstrainedValues)
    /\ ResolvedCurve =>
           /\ curve_y_min = RangeLo(FiniteValues(CurveAtHand))
           /\ curve_y_max = RangeHi(FiniteValues(CurveAtHand))

\* C10: under auto-scale, when no curve yields a usable y value the resolver
\* falls back to a concrete default range and reports it with a message.
C10_EmptyUnionFallback ==
    /\ (/\ plot_grouping = "All in One"
        /\ pc = "setup_axes"
        /\ auto_scale_y
        /\ all_y_vals = <<>>) =>
           /\ final_y_min # None
           /\ final_y_max # None
           /\ skipped_curves # <<>>
    /\ (/\ plot_grouping = "One per Curve"
        /\ pc \in {"per_curve", "return", "returned"}
        /\ auto_scale_y
        /\ i > 1
        /\ data_ref[i - 1].has_keys
        /\ y_range = <<>>) =>
           /\ curve_y_min # None
           /\ curve_y_max # None
           /\ skipped_curves # <<>>

\* The call has left its first statement: validation has acted.
Validated == pc # "call"

\* C11: plot_graphs raises whenever x_min >= x_max, the case x_min = x_max
\* included, before any curve is evaluated and without returning: the call
\* ends in ValueError with nothing collected, drawn or reported.
C11_InvalidXRangeRaises ==
    (Validated /\ x_min >= x_max) =>
        /\ pc = "raised"
        /\ exc = "ValueError"
        /\ all_y_vals = <<>> /\ y_range = <<>>
        /\ plotted = <<>> /\ figs = <<>> /\ skipped_curves = <<>>

\* The result of an empty batch: no figure, one message, the no-data note.
EmptyResult ==
    /\ pc = "returned"
    /\ exc = ""
    /\ figs = <<>>
    /\ plotted = <<>>
    /\ Len(skipped_curves) = 1
    /\ skipped_curves[1].kind = "no_data"

\* C12 as stated: for an empty batch plot_graphs returns an empty figure list
\* and exactly one message, the no-data note, for every axis configuration.
C12_EmptyBatchAnyAxes ==
    (Validated /\ data_ref = <<>>) => EmptyResult

\* C12 (amended): for an empty batch and every X range the validation accepts
\* (x_min <= x_max), whatever the Y range and the flags, plot_graphs returns
\* an empty figure list and exactly one message, the no-data note.
C12_EmptyBatchReturnsNote ==
    (Validated /\ data_ref = <<>> /\ x_min <= x_max) => EmptyResult

\* C12 witness: an empty batch called with fixed Y bounds, auto-scale and the
\* stop flags set has returned the note.
C12_Witness ==
    /\ data_ref = <<>>
    /\ y_min # None /\ auto_scale_y /\ stop_y_exit /\ stop_x_exit
    /\ plot_grouping = "One per Curve"
    /\ EmptyResult

\* Every curve of a non-empty batch was skipped and the call is over: it
\* returned, or it ended in the NameError of setup_axes with nothing drawn.
AllSkipped ==
    /\ data_ref # <<>>
    /\ plotted = <<>>
    /\ \/ pc = "returned"
       \/ pc = "raised" /\ exc = "NameError"

\* C13: when every curve of a non-empty batch is skipped, plot_graphs returns
\* no figure, in both groupings, and the messages it returns name every entry.
C13_AllSkippedEmptyResult ==
    AllSkipped =>
        /\ pc = "returned"
        /\ figs = <<>>
        /\ \A n \in 1..Len(data_ref) : Named(n)

\* Entry n has been through the loop (both passes in "All in One").
Done(n) ==
    IF plot_grouping = "All in One"
    THEN pc = "setup_axes" \/ (pc = "raised" /\ exc = "NameError")
    ELSE pc \in {"per_curve", "return", "returned", "raised"} /\ n < i

\* The samples of curve n that no filter may keep out: finite and, under
\* fixed Y bounds, inside them.
Surviving(n) ==
    { k \in 1..NumPoints :
        /\ isfinite(CurveSamples(n)[k].y)
        /\ FixedY => Inside(CurveSamples(n)[k]) }

\* C17: every accepted curve has at least 2 points, and every curve left with
\* fewer than 2 points (finite and, under fixed Y bounds, in range) is not
\* plotted and gets a message naming it, whatever the stop flags are.
C17_MinimumLength ==
    /\ \A p \in Plotted : Len(p.points) >= 2
    /\ \A n \in 1..Len(data_ref) :
           (Done(n) /\ Numeric(n) /\ Cardinality(Surviving(n)) < 2) =>
               ~Accepted(n) /\ Named(n)

\* C18: every point handed to ax.plot is a finite sample of its curve with
\* x_min <= x <= x_max and, under fixed Y bounds, y_min <= y <= y_max; the
\* points of one call are in strictly increasing x order.
C18_PointsFiniteInBoundsOrdered ==
    \A p \in Plotted :
        /\ \A pt \in PointsOf(p) :
               /\ CurveSamples(p.entry)[pt.k] = [k |-> pt.k, x |-> pt.x, y |-> Fin(pt.y)]
               /\ pt.x >= x_min /\ pt.x <= x_max
               /\ FixedY => InBounds(pt.y, y_min, y_max)
        /\ \A m \in 1..(Len(p.points) - 1) : p.points[m].x < p.points[m + 1].x

AllZero(n) ==
    /\ data_ref[n].has_keys
    /\ \A m \in 1..Len(data_ref[n].coefficients) : data_ref[n].coefficients[m] = Fin(0)

\* C14 (plot_graphs called directly): a curve whose coefficients are all zero
\* is skipped and never plotted, for every Y range, auto-scale and stop
\* setting: no call of ax.plot is for it, and once it is through the loop a
\* message names it.
C14_AllZeroSkipped ==
    \A n \in 1..Len(data_ref) :
        AllZero(n) =>
            /\ ~Accepted(n)
            /\ Done(n) => Named(n)

\* The non-blank lines of the legend text, read as overrides: the name, and
\* the color when the line is of the form 'name: color'.
OverrideOf(raw) ==
    LET line == strip(raw) IN
    IF HasColon(line)
    THEN [name |-> strip(BeforeColon(line)), colored |-> TRUE,
          color |-> strip(AfterColon(line))]
    ELSE [name |-> line, colored |-> FALSE, color |-> ""]

Overrides ==
    LET kept == SelectSeq(LegendLines, LAMBDA raw : strip(raw) # "")
    IN [n \in 1..Len(kept) |-> OverrideOf(kept[n])]

NameOnlyLines(name) ==
    { n \in 1..Len(Overrides) : Overrides[n].name = name /\ ~Overrides[n].colored }
ColoredLines(name) ==
    { n \in 1..Len(Overrides) : Overrides[n].name = name /\ Overrides[n].colored }

\* The color the call gives the curve of p when no line names it.
PaletteColor(p) ==
    IF ~use_colorful THEN "black"
    ELSE IF plot_grouping = "All in One"
         THEN colors[((p.entry - 1) % Len(colors)) + 1]
         ELSE colors[1]

\* C19 as stated: a curve named by a name-only line has the palette color it
\* would have with no override; a curve named by a 'name: color' line has a
\* given color in colorful mode and black in monochrome mode.
C19_LegendOverridesAsStated ==
    \A p \in Plotted :
        /\ NameOnlyLines(p.name) # {} => p.color = PaletteColor(p)
        /\ ColoredLines(p.name) # {} =>
               IF use_colorful
               THEN \E n \in ColoredLines(p.name) : p.color = Overrides[n].color
               ELSE p.color = "black"

\* C19 (amended): a curve named by no 'name: color' line (by name-only lines
\* or by none) has its palette color; a curve named by 'name: color' lines
\* has, in colorful mode, the color of the last of them, wherever name-only
\* lines of the same name stand, and black in monochrome mode; the label is
\* the name in every case.
C19_LastColorLineWins ==
    \A p \in Plotted :
        /\ p.label = p.name
        /\ ColoredLines(p.name) = {} => p.color = PaletteColor(p)
        /\ ColoredLines(p.name) # {} =>
               IF use_colorful
               THEN p.color = Overrides[SetMax(ColoredLines(p.name))].color
               ELSE p.color = "black"

\* C19 witness: in colorful mode a curve is drawn in the color of a
\* 'name: color' line that a name-only line of the same name follows.
C19_Witness ==
    \E p \in Plotted :
        /\ use_colorful
        /\ \E n \in ColoredLines(p.name) : \E m \in NameOnlyLines(p.name) :
               n < m /\ p.color = Overrides[n].color
        /\ p.color # PaletteColor(p)

\* No line of the legend text names the curve of p.
Unmatched(p) == \A n \in 1..Len(Overrides) : Overrides[n].name # p.name

\* C20: in colorful mode a curve no override names, at batch index i, has
\* color palette[i mod n] and its own name as label, in both groupings; two
\* such curves have the same color only if their indices are congruent
\* modulo n, n the length of the palette.
C20_PaletteByIndex ==
    use_colorful =>
        /\ \A p \in Plotted :
               Unmatched(p) =>
                   /\ p.color = colors[((p.entry - 1) % Len(colors)) + 1]
                   /\ p.label = p.name
        /\ \A p, q \in Plotted :
               (Unmatched(p) /\ Unmatched(q) /\ p.color = q.color) =>
                   (p.entry - 1) % Len(colors) = (q.entry - 1) % Len(colors)

\* ------------------------------------------------------ loader properties
\* The rows load_reference_data has passed to process_row so far.
RowsDone ==
    IF pc \in {"rows", "finish", "loaded"} /\ uploaded_file.kind = "sheet"
    THEN 1..index ELSE {}
RowAt(n) == uploaded_file.rows[n]
Loaded == { data_ref[n] : n \in 1..Len(data_ref) }
RowMessages == { skipped_rows[n] : n \in 1..Len(skipped_rows) }

\* Row n is a data row with a usable name that no earlier row has.
FirstOfName(n) ==
    /\ is_valid_data_row(RowAt(n))
    /\ extract_valid_name(RowAt(n)[1]) # ""
    /\ \A k \in 1..(n - 1) :
           isna(RowAt(k)[1]) \/
           lower(strip(str(RowAt(k)[1]))) # lower(strip(str(RowAt(n)[1])))

\* C15 (loader): a row with more than MAX_DEGREE + 1 coefficient cells is not
\* rejected: process_row adds its curve with exactly MAX_DEGREE + 1
\* coefficients, and skipped_rows, the diagnostics returned to the caller,
\* holds a degree-exceeded message for that row.
C15_DegreeCapInLoader ==
    \A n \in RowsDone :
        (FirstOfName(n) /\ Len(RowAt(n)) - 1 > MAX_DEGREE + 1) =>
            /\ \E entry \in Loaded :
                   /\ entry.row_index = n - 1
                   /\ Len(entry.coefficients) = MAX_DEGREE + 1
            /\ \E msg \in RowMessages :
                   msg.index = n - 1 /\ msg.kind = "degree_exceeded"

\* C16: the first coefficient of every curve the loader accepted from a row
\* is non-negligible, |c[0]| >= 1e-10.
C16_LeadingCoefficientSignificant ==
    pc \in {"rows", "finish", "loaded"} =>
        \A entry \in Loaded :
            entry.row_index >= 0 => ~AbsBelow(entry.coefficients[1], SignificantExp)

\* ------------------------------------------------------- the Y ceiling
\* The ceiling the resolved range is held against: a tenth of the largest
\* finite magnitude, in the units of the y values.
Ceiling == FMax \div 10

\* lo..hi resolved from the values S respects the ceiling: y_max is at most
\* the ceiling, and when the padded maximum of S is above the ceiling y_max
\* is the ceiling and a message about the clamping is in skipped_curves.
CeilingLaw(hi, S) ==
    /\ hi # None
    /\ Val(hi) <= PadDen * Ceiling
    /\ Val(RangeHi(S)) > PadDen * Ceiling =>
           /\ Val(hi) = PadDen * Ceiling
           /\ \E m \in Messages : m.kind = "y_max_clamped"

\* C21: under auto-scale the resolved y_max never exceeds the configured
\* ceiling; when the padded maximum of the collected values exceeds it,
\* y_max equals the ceiling and a diagnostic is added, in both groupings.
C21_HardCeiling ==
    /\ ResolvedAll => CeilingLaw(final_y_max, Elems(all_y_vals))
    /\ ResolvedCurve => CeilingLaw(curve_y_max, Elems(y_range))

\* ------------------------------------------------ unparsable coefficients
\* The coefficients of curve n with 0.0 in place of every cell that is no
\* number, and the samples of that vector no filter may keep out.
Recovered(n) ==
    [m \in 1..Len(data_ref[n].coefficients) |->
        IF data_ref[n].coefficients[m].t = "str" THEN Fin(0)
        ELSE data_ref[n].coefficients[m]]
RecoveredSamples(n) == Samples(Truncate(Recovered(n)))
RecoveredSurviving(n) ==
    { k \in 1..NumPoints :
        /\ isfinite(RecoveredSamples(n)[k].y)
        /\ FixedY => Inside(RecoveredSamples(n)[k]) }

\* C22: a coefficient value that cannot be parsed counts as 0.0 at its own
\* position and is not fatal to its curve: a curve with such a value that,
\* read with 0.0 in its place, has two samples to draw (finite and, under
\* fixed Y bounds, in range) is plotted once it is through the loop.
C22_UnparsableValueNotFatal ==
    \A n \in 1..Len(data_ref) :
        (/\ Done(n)
         /\ data_ref[n].has_keys
         /\ ArrayFails(data_ref[n].coefficients)
         /\ Cardinality(RecoveredSurviving(n)) >= 2) =>
            Accepted(n)

\* ------------------------------------------------------- duplicate names
\* Row n is a data row with a usable name; its name as it is compared; the
\* rows of one name; the row is in data_ref; the messages about the row.
DataRow(n) == is_valid_data_row(RowAt(n)) /\ extract_valid_name(RowAt(n)[1]) # ""
NameOf(n) == lower(extract_valid_name(RowAt(n)[1]))
SameName(k, n) == DataRow(k) /\ DataRow(n) /\ NameOf(k) = NameOf(n)
Kept(n) == \E entry \in Loaded : entry.row_index = n - 1
MessagesOf(n) == { j \in 1..Len(skipped_rows) : skipped_rows[j].index = n - 1 }
OneDuplicateMessage(n) ==
    /\ Cardinality(MessagesOf(n)) = 1
    /\ \A j \in MessagesOf(n) : skipped_rows[j].kind = "duplicate_name"

\* No two entries of data_ref have names that are equal ignoring case.
UniqueNames ==
    \A m, n \in 1..Len(data_ref) :
        lower(data_ref[m].name) = lower(data_ref[n].name) => m = n

\* The row passes every check of process_row other than the one for
\* duplicates: alone on a sheet it is accepted.
Acceptable(n) == process_row(RowAt(n), n - 1, <<>>, <<>>, MAX_DEGREE).data_ref # <<>>

\* C23 as stated: names are unique ignoring case; the first data row with a
\* given name is kept, and each later data row with that name is not added
\* and gets exactly one message, the duplicate-name message.
C23_FirstRowOfNameKept ==
    /\ UniqueNames
    /\ \A n \in RowsDone :
           DataRow(n) =>
               IF \E k \in 1..(n - 1) : SameName(k, n)
               THEN ~Kept(n) /\ OneDuplicateMessage(n)
               ELSE Kept(n)

\* C23 (amended): names are unique ignoring case; a data row whose name is
\* that of an entry already in data_ref is not added and gets exactly one
\* message, the duplicate-name message; any other data row is added exactly
\* when it passes the remaining checks, so the entry of a name is its first
\* row that does; the entries are the rows kept, in the order of the sheet.
C23_FirstAcceptedOfNameKept ==
    /\ UniqueNames
    /\ \A n \in RowsDone :
           DataRow(n) =>
               IF \E k \in 1..(n - 1) : SameName(k, n) /\ Kept(k)
               THEN ~Kept(n) /\ OneDuplicateMessage(n)
               ELSE Kept(n) <=> Acceptable(n)
    /\ pc \in {"rows", "finish"} =>
           /\ Len(data_ref) = Cardinality({ n \in RowsDone : Kept(n) })
           /\ \A m, n \in 1..Len(data_ref) :
                  m < n => data_ref[m].row_index < data_ref[n].row_index

\* C23 witness: two rows whose names differ in case only; the first is in
\* data_ref and the second got the duplicate-name message.
C23_Witness ==
    /\ pc = "loaded"
    /\ RowsDone = {1, 2}
    /\ SameName(1, 2)
    /\ extract_valid_name(RowAt(1)[1]) # extract_valid_name(RowAt(2)[1])
    /\ Kept(1) /\ ~Kept(2) /\ OneDuplicateMessage(2)
    /\ Len(data_ref) = 1

\* ------------------------------------------------------ the loader's result
\* load_reference_data has returned (data_ref, skipped_rows).
ReturnedLoad == pc = "loaded"

\* C24: called with debug=False, load_reference_data returns an empty list
\* as the second element of its result, for every input file.
C24_NoMessagesWithoutDebug ==
    (ReturnedLoad /\ ~debug) => skipped_rows = <<>>

\* ------------------------------------------------ the barrier of All in One
\* The entries the first pass collects values from, in the order of the batch.
RECURSIVE ScalableUpTo(_)
ScalableUpTo(n) ==
    IF n = 0 THEN <<>>
    ELSE IF ValuesOf(n) # {} THEN Append(ScalableUpTo(n - 1), n)
    ELSE ScalableUpTo(n - 1)

\* The shared range as it is resolved from the whole batch.
SharedLo == IF auto_scale_y /\ UnionValues # {} THEN RangeLo(UnionValues) ELSE y_min
SharedHi == IF auto_scale_y /\ UnionValues # {} THEN RangeHi(UnionValues) ELSE y_max

\* The final filtering of "All in One" has started.
FilteringStarted == pc = "second_pass" \/ plotted # <<>>

\* C25: in "All in One" no curve is filtered while the first pass or the
\* resolution of the range is still at work; once the filtering of the first
\* curve starts, every curve of the batch has been evaluated for scaling and
\* the shared range is the one resolved from all of them, and it stays so:
\* every curve drawn so far was filtered by the range that holds now.
C25_BarrierBeforeFiltering ==
    plot_grouping = "All in One" =>
        /\ pc \in {"first_pass", "auto_scale"} => plotted = <<>>
        /\ FilteringStarted =>
               /\ plot_data = ScalableUpTo(Len(data_ref))
               /\ Elems(all_y_vals) = UnionValues
               /\ final_y_min = SharedLo /\ final_y_max = SharedHi
               /\ \A p \in Plotted : p.y_lo = final_y_min /\ p.y_hi = final_y_max

\* C25 witness: between the filtering of the first and of the second curve
\* of an auto-scaled batch the range is the one of both curves together, not
\* the range of the curve already drawn.
C25_Witness ==
    /\ plot_grouping = "All in One"
    /\ auto_scale_y
    /\ pc = "second_pass"
    /\ Len(plot_data) = 2 /\ i = 2 /\ Len(plotted) = 1
    /\ final_y_min = RangeLo(UnionValues)
    /\ RangeLo(ValuesOf(1)) # RangeLo(UnionValues)
    /\ plotted[1].y_lo = final_y_min /\ plotted[1].y_hi = final_y_max

\* ------------------------------------------------- the entries of the loader
\* The coefficients that are not zero, and the four conditions on a vector:
\* its length, a coefficient above 1e-10, none above 1e15, and for a degree
\* above 3 a ratio of the largest to the smallest non-zero magnitude of at
\* most 1e12.
NonZero(coeffs) == SelectSeq(coeffs, LAMBDA c : c.sg # 0)
WellFormed(coeffs) ==
    /\ 1 <= Len(coeffs) /\ Len(coeffs) <= MAX_DEGREE + 1
    /\ \E n \in 1..Len(coeffs) : AbsAbove(coeffs[n], SignificantExp)
    /\ \A n \in 1..Len(coeffs) : ~AbsAbove(coeffs[n], HugeExp)
    /\ (Len(coeffs) - 1 > 3 /\ Len(NonZero(coeffs)) > 1) =>
           ~RatioAbove(AbsMax(NonZero(coeffs)), AbsMin(NonZero(coeffs)), RatioExp)

\* The vector process_row makes of the coefficient cells of row n: 0.0 for
\* the cells without a number, at most MAX_DEGREE + 1 entries, no leading
\* zeros.
Cleaned(n) ==
    RemoveLeadingZeros(TruncateRow(
        [m \in 1..(Len(RowAt(n)) - 1) |-> CoefficientOf(RowAt(n)[m + 1])], MAX_DEGREE))

\* C26: every entry of data_ref satisfies the four conditions, when it is
\* added and ever after, and a row whose vector violates one of them is not
\* added and gets a skipped-row message.
C26_EntriesWellFormed ==
    /\ \A entry \in Loaded : WellFormed(entry.coefficients)
    /\ \A n \in RowsDone :
           ~WellFormed(Cleaned(n)) => ~Kept(n) /\ MessagesOf(n) # {}

\* ------------------------------------------------------------ stop_x_exit
\* plot_single_curve as it runs with stop_x_exit off: the finite samples go
\* to the Y stop logic as they are.
WithoutXStop(entry, y_lo, y_hi) ==
    LET name == entry.name IN
    IF ArrayFails(entry.coefficients)
    THEN Skip(<<Msg("invalid_coefficients", name)>>)
    ELSE
    LET degree == Len(entry.coefficients) - 1
        diags == IF degree > MaxDegree THEN <<Msg("degree_exceeded", name)>> ELSE <<>>
        samples == Samples(Truncate(entry.coefficients))
        finite == Finite(samples)
    IN IF (\A k \in 1..NumPoints : isnan(samples[k].y))
          \/ (\A k \in 1..NumPoints : isinf(samples[k].y))
       THEN Skip(Append(diags, Msg("no_valid_output", name)))
       ELSE IF Len(finite) < 2
            THEN Skip(Append(diags, Msg("insufficient_finite", name)))
            ELSE YStop(name, diags, finite, y_lo, y_hi)

\* The loop at hand has raised: the curve at index i was the last one handled.
LoopRaised ==
    /\ pc = "raised"
    /\ exc \in {"TypeError", "NameError"}
    /\ exc = "TypeError" => plotted # <<>>

\* The messages of the first n entries of "One per Curve" with stop_x_exit off.
RECURSIVE DiagsPerCurve(_)
DiagsPerCurve(n) ==
    IF n = 0 THEN <<>>
    ELSE DiagsPerCurve(n - 1) \o
         (IF ~data_ref[n].has_keys THEN <<EntryMsg("missing_key", n - 1)>>
          ELSE WithoutXStop(data_ref[n], CurveRange(data_ref[n]).lo,
                            CurveRange(data_ref[n]).hi).diags)

\* The messages of "All in One" with stop_x_exit off: those of the first n
\* entries in the first pass, those of the first n curves of plot_data in the
\* second.
RECURSIVE DiagsFirstPass(_)
DiagsFirstPass(n) ==
    IF n = 0 THEN <<>>
    ELSE DiagsFirstPass(n - 1) \o
         (IF ~data_ref[n].has_keys THEN <<EntryMsg("missing_key", n - 1)>> ELSE <<>>)
RECURSIVE DiagsSecondPass(_)
DiagsSecondPass(n) ==
    IF n = 0 THEN <<>>
    ELSE DiagsSecondPass(n - 1) \o
         WithoutXStop(data_ref[plot_data[n]], final_y_min, final_y_max).diags

\* The diagnostics the call has collected so far when stop_x_exit is off.
DiagsWithoutXStop ==
    IF pc = "call" \/ (pc = "raised" /\ ~LoopRaised) THEN <<>>
    ELSE IF data_ref = <<>> THEN <<Msg("no_data", "")>>
    ELSE IF plot_grouping = "One per Curve"
    THEN DiagsPerCurve(IF LoopRaised THEN i ELSE i - 1)
    ELSE IF pc = "first_pass" THEN DiagsFirstPass(i - 1)
    ELSE IF pc = "auto_scale" THEN DiagsFirstPass(Len(data_ref))
    ELSE DiagsFirstPass(Len(data_ref)) \o
         DiagsSecondPass(IF LoopRaised /\ exc = "TypeError" THEN i ELSE i - 1)

\* C27: with debug off the stop_x_exit flag has no effect: the diagnostics
\* collected and the points of every call of ax.plot are those of the same
\* call with stop_x_exit off, and no curve is skipped for never entering the
\* X bounds.
C27_StopXExitNoEffect ==
    ~debug =>
        /\ skipped_curves = DiagsWithoutXStop
        /\ \A p \in Plotted :
               LET r == WithoutXStop(data_ref[p.entry], p.y_lo, p.y_hi)
               IN r.status # "skip" /\ r.points = p.points
        /\ \A m \in Messages : m.kind # "never_entered_x"

\* C27 witness: with stop_x_exit on and debug off a curve is drawn over a
\* proper X range with all of its samples, and another one is skipped.
C27_Witness ==
    /\ stop_x_exit /\ ~debug
    /\ x_min < x_max
    /\ pc \in {"return", "returned", "raised"}
    /\ \E p \in Plotted : Len(p.points) = NumPoints
    /\ skipped_curves # <<>>

\* ------------------------------------------- auto-scale covers what is drawn
\* The range set on the axes of the figure of the call p of ax.plot: the
\* range p was filtered by (both call sites pass the same pair to setup_axes).
WithinOwnRange(p) ==
    /\ p.y_lo # None /\ p.y_hi # None
    /\ \A pt \in PointsOf(p) : InBounds(pt.y, p.y_lo, p.y_hi)

\* C28: with auto_scale_y on, whatever stop_y_exit and the caller's y_min,
\* y_max are, every y value of every accepted curve lies within the resolved
\* Y range of its figure, the range ax.set_ylim is called with.
C28_AcceptedWithinResolvedRange ==
    auto_scale_y =>
        /\ \A p \in Plotted : WithinOwnRange(p)
        /\ (ylim # None /\ plotted # <<>>) =>
               ylim = <<plotted[Len(plotted)].y_lo, plotted[Len(plotted)].y_hi>>

\* ------------------------------------------------------ one outcome per row
\* C29: every row passed to process_row has exactly one outcome: one entry
\* of data_ref and no message, or no entry and exactly one message of
\* skipped_rows; no row is discarded without a message.
C29_OneOutcomePerRow ==
    \A n \in RowsDone :
        \/ Kept(n) /\ MessagesOf(n) = {}
           /\ Cardinality({ m \in 1..Len(data_ref) : data_ref[m].row_index = n - 1 }) = 1
        \/ ~Kept(n) /\ Cardinality(MessagesOf(n)) = 1

\* ------------------------------------------------- failures during a load
\* The file is a sheet whose rows are passed to process_row.
Processed ==
    /\ uploaded_file.kind = "sheet"
    /\ uploaded_file.rows # <<>>
    /\ uploaded_file.columns >= 2

\* The entries accepted from the first n rows, and whether process_row raises
\* on row n when it is reached with them.
RECURSIVE EntriesAfter(_)
EntriesAfter(n) ==
    IF n = 0 THEN <<>>
    ELSE process_row(RowAt(n), n - 1, EntriesAfter(n - 1), <<>>, MAX_DEGREE).data_ref
FailsAt(n) ==
    process_row(RowAt(n), n - 1, EntriesAfter(n - 1), <<>>, MAX_DEGREE).exc # ""

\* The first row process_row raises on (0 when there is none), the rows read
\* up to it, and the entries accepted before the failure.
FirstFailure ==
    IF \E n \in 1..Len(uploaded_file.rows) : FailsAt(n)
    THEN CHOOSE n \in 1..Len(uploaded_file.rows) :
             FailsAt(n) /\ \A k \in 1..(n - 1) : ~FailsAt(k)
    ELSE 0
RowsRead == IF FirstFailure > 0 THEN FirstFailure ELSE Len(uploaded_file.rows)
AcceptedBeforeFailure == IF Processed THEN EntriesAfter(RowsRead) ELSE <<>>
ParsingFailures == { j \in 1..Len(skipped_rows) : skipped_rows[j].kind = "parsing_failed" }

====
